---------------------------- MODULE Spec2Model ----------------------------
(***************************************************************************)
(* Model of OrderProcessor (src/src/OrderProcessor.ts) and of the three    *)
(* collaborator interfaces it awaits (src/common/types.ts).                *)
(*                                                                         *)
(* A TypeScript number given as a decimal literal is a record [nan, v]:    *)
(* NaN or the decimal v, money in units of 1/10000, quantities as plain    *)
(* counts.  The arithmetic of calculateTotal() is IEEE-754 double          *)
(* arithmetic: a money value in flight is a record [nan, d, e] that holds  *)
(* the double exactly, see Dbl below.                                      *)
(* processOrder is an async function: one action per stretch of code       *)
(* between two awaits, pc naming the await it is suspended at.             *)
(***************************************************************************)
EXTENDS Integers, Sequences, FiniteSets, TLC

VARIABLES
    items,            \* this.items: sequence of IOrderItem
    customerEmail,    \* this.customerEmail
    discountApplied,  \* this.discountApplied
    paymentStatus,    \* this.paymentStatus
    orderId,          \* this.orderId
    pc,               \* where processOrder() is: idle, an await, or done
    idx,              \* position of the running for-of iterator (1-based)
    item,             \* the loop variable `item` held across the await
    totalAmount,      \* const totalAmount (line 85)
    statusAtCall,     \* paymentStatus when processOrder() was entered
    log,              \* collaborator calls of this processOrder(), in order
    result,           \* how processOrder() settled: none, true, false, threw
    returned          \* what calculateTotal() or getOrderStatus() just returned

vars == <<items, customerEmail, discountApplied, paymentStatus, orderId,
          pc, idx, item, totalAmount, statusAtCall, log, result, returned>>

-----------------------------------------------------------------------------
(* Bounds of the model *)

MaxQty == 2

-----------------------------------------------------------------------------
(* TypeScript numbers *)

NaN == [nan |-> TRUE, v |-> 0]

Num(n) == [nan |-> FALSE, v |-> n]

\* a + b
NumAdd(a, b) == IF a.nan \/ b.nan THEN NaN ELSE Num(a.v + b.v)

\* a <= 0, a < 0, a > 0: every comparison with NaN is false
NumLe0(a) == ~a.nan /\ a.v <= 0

NumLt0(a) == ~a.nan /\ a.v < 0

NumGt0(a) == ~a.nan /\ a.v > 0

-----------------------------------------------------------------------------
(* Doubles.  A finite double x >= 0 is held as the pair (d, e) with        *)
(*     x = d / 10^5 + e / (10^5 * 2^61)                                    *)
(* d is the decimal the computation aims at, in units of 10^-5, and e is   *)
(* the exact distance of the double from it.  Every double met here is     *)
(* zero or lies in [2^-9, 2^4), so it is a multiple of 2^-61 and e is an   *)
(* integer.  Rounding to nearest, ties to even, is done on residues.       *)

DblNaN == [nan |-> TRUE, d |-> 0, e |-> 0]

Dbl(d, e) == [nan |-> FALSE, d |-> d, e |-> e]

Pow2(n) == 2 ^ n

\* 2^n mod m, without leaving 32 bits
RECURSIVE Pow2Mod(_, _)
Pow2Mod(n, m) ==
    IF n <= 30 THEN (2 ^ n) % m ELSE (((2 ^ 30) % m) * Pow2Mod(n - 30, m)) % m

\* 2^nb <= y for the real y = d / 10^5 + (e + s * tiny) / (10^5 * 2^61)
ReachesExponent(nb, d, e, s) ==
    LET lhs == IF nb < 0 THEN d * Pow2(0 - nb) ELSE d
        rhs == IF nb < 0 THEN 100000 ELSE 100000 * Pow2(nb)
    IN  lhs > rhs \/ (lhs = rhs /\ ~(e < 0 \/ (e = 0 /\ s < 0)))

RECURSIVE ExponentFrom(_, _, _, _)
ExponentFrom(b, d, e, s) ==
    IF ReachesExponent(b, d, e, s) THEN b ELSE ExponentFrom(b - 1, d, e, s)

\* the binary exponent of y < 2^4: the largest b with 2^b <= y
Exponent(d, e, s) == ExponentFrom(3, d, e, s)

\* the double nearest to the real y = d / 10^5 + (e + s * tiny) / (10^5 * 2^61),
\* returned as its distance from d / 10^5.  The doubles of exponent b are the
\* multiples of g = 2^(b + 9) units of 2^-61; y's offset from the grid is
\* (d * 2^61 + e) mod (2 * g * 10^5), and 2 * g * 10^5 = 2^(b + 15) * 3125.
\* (The arithmetic is written as functions: TLC evaluates a function's
\* argument once, also inside ENABLED.)
\* y lies t above a double, in a cell of doubles `cell` wide; odd tells
\* whether that double's last bit is 1
RoundInCell[cell \in Int, t \in Int, odd \in BOOLEAN, e \in Int, s \in Int] ==
    IF 2 * t > cell \/ (2 * t = cell /\ (s > 0 \/ (s = 0 /\ odd)))
    THEN e + (cell - t)
    ELSE e - t

\* T is y's offset in a pair of cells
RoundInPair[cell \in Int, T \in Int, e \in Int, s \in Int] ==
    RoundInCell[cell, T % cell, T >= cell, e, s]

RoundAt[b \in Int, d \in Int, e \in Int, s \in Int] ==
    RoundInPair[Pow2(b + 9) * 100000,
                (Pow2(b + 15) * (((d % 3125) * Pow2Mod(46 - b, 3125)) % 3125)
                   + (e % (Pow2(b + 10) * 100000))) % (Pow2(b + 10) * 100000),
                e, s]

RoundToDouble[d \in Int, e \in Int, s \in Int] ==
    IF d = 0 THEN 0 ELSE RoundAt[Exponent(d, e, s), d, e, s]

Nums == [nan : BOOLEAN, v : Int]

Doubles == [nan : BOOLEAN, d : Int, e : Int]

\* the double a decimal literal denotes
Literal[a \in Nums] ==
    IF a.nan THEN DblNaN ELSE Dbl(10 * a.v, RoundToDouble[10 * a.v, 0, 0])

\* p * q for a double p and a small whole number q: the real product is
\* (d * q, e * q), then rounded
Times[p \in Doubles, q \in Int] == Dbl(p.d * q, RoundToDouble[p.d * q, p.e * q, 0])

\* item.price * item.quantity
Product[price \in Nums, quantity \in Nums] ==
    IF price.nan \/ quantity.nan THEN DblNaN ELSE Times[Literal[price], quantity.v]

\* a + b on doubles
DblAdd[a \in Doubles, b \in Doubles] ==
    IF a.nan \/ b.nan THEN DblNaN
    ELSE Dbl(a.d + b.d, RoundToDouble[a.d + b.d, a.e + b.e, 0])

Sign(n) == IF n > 0 THEN 1 ELSE IF n < 0 THEN 0 - 1 ELSE 0

\* total *= 0.9.  The double 0.9 is 9/10 + 2^9 / (10 * 2^61), so the real
\* product of (d, e) with it is 9d/10 in decimal, 512 * d/10 + 9 * e/10 units
\* away from it, plus e * 2^-52 / 10 units: less than a unit, with e's sign
Times09[a \in Doubles] ==
    IF a.nan THEN DblNaN
    ELSE Dbl(9 * (a.d \div 10),
             RoundToDouble[9 * (a.d \div 10),
                           512 * (a.d \div 10) + 9 * (a.e \div 10),
                           Sign(a.e)])

\* parseFloat(x.toFixed(2)): toFixed takes the n for which n / 100 - x is
\* closest to zero, the larger n when two are equally close, on the exact
\* value of the double; NaN.toFixed(2) is "NaN" and parses to NaN.  The
\* result is the decimal literal n / 100, in units of 1/10000
ToFixed2[a \in Doubles] ==
    IF a.nan THEN NaN
    ELSE LET q == a.d \div 1000
             r == a.d % 1000
         IN  IF r > 500 \/ (r = 500 /\ a.e >= 0) THEN Num((q + 1) * 100) ELSE Num(q * 100)

-----------------------------------------------------------------------------
(* Inputs *)

Ids == {"prod1", "prod2"}

Names == {"Item A", "Item B"}

\* -1.00, 0, 0.004, 1.005 and NaN
PriceInputs == {Num(0 - 10000), Num(0), Num(40), Num(10050), NaN}

QuantityInputs == {Num(0 - 1), Num(0), Num(1), NaN}

ItemInputs == [id : Ids, name : Names, price : PriceInputs, quantity : QuantityInputs]

DiscountCodes == {"SALE10", "INVALIDCODE"}

\* an email is a sequence of characters
EmailInputs == {<< >>, <<"a">>, <<"a", "@", "b">>}

OrderIds == {"uuid-1"}

NoItem == [id |-> "", name |-> ""]

-----------------------------------------------------------------------------
(* Constructor *)

\* the test of includes('@') left out
MutIsInvalidEmail(email) == email = << >>

\* !customerEmail || !customerEmail.includes('@')
IsInvalidEmail(email) == email = << >> \/ ~(\E i \in 1..Len(email) : email[i] = "@")

\* this.orderId before the constructor assigns it
NoOrderId == ""

\* no synchronous call is between its return and its caller
NoReturn ==
    [op |-> "none", total |-> Num(0), orderId |-> "", email |-> << >>,
     count |-> 0, discount |-> FALSE, status |-> ""]

\* a step of anything but calculateTotal() and getOrderStatus(): JavaScript runs
\* a synchronous call to its end before any other code of the thread
NoQuery == returned = NoReturn /\ UNCHANGED returned

\* new OrderProcessor(customerEmail, ...) is entered: the field initialisers
\* of lines 5-8 have run and customerEmail holds the constructor's argument
Init ==
    /\ items = << >>
    /\ customerEmail \in EmailInputs
    /\ discountApplied = FALSE
    /\ paymentStatus = "pending"
    /\ orderId = NoOrderId
    /\ pc = "new"
    /\ returned = NoReturn
    /\ idx = 0
    /\ item = NoItem
    /\ totalAmount = Num(0)
    /\ statusAtCall = "pending"
    /\ log = << >>
    /\ result = "none"

procVars == <<pc, idx, item, totalAmount, statusAtCall, log, result>>

\* lines 17-21: the constructor's body; a throw leaves no instance to call
Construct ==
    /\ pc = "new"
    /\ NoQuery
    /\ IF IsInvalidEmail(customerEmail)
       THEN pc' = "invalid" /\ UNCHANGED orderId
       ELSE pc' = "idle" /\ orderId' \in OrderIds
    /\ UNCHANGED <<items, customerEmail, discountApplied, paymentStatus,
                   idx, item, totalAmount, statusAtCall, log, result>>

-----------------------------------------------------------------------------
(* addItem, removeItem, calculateTotal, applyDiscount *)

\* item.quantity <= 0 || item.price < 0
IsInvalidItem(it) == NumLe0(it.quantity) \/ NumLt0(it.price)

\* this.items.findIndex(i => i.id === id): first matching index, 0 if none
FindIndex(its, id) ==
    IF \E i \in 1..Len(its) : its[i].id = id
    THEN CHOOSE i \in 1..Len(its) :
            /\ its[i].id = id
            /\ \A j \in 1..(i - 1) : its[j].id # id
    ELSE 0

\* the lookup of an existing entry left out: always push
MutAddItemStored(its, it) == Append(its, it)

\* the item list after addItem(it) passed validation
AddItemStored(its, it) ==
    LET i == FindIndex(its, it.id) IN
    IF i > 0
    THEN [its EXCEPT ![i].quantity = NumAdd(its[i].quantity, it.quantity)]
    ELSE Append(its, it)

\* the item list after addItem(it)
AddItemResult(its, it) == IF IsInvalidItem(it) THEN its ELSE AddItemStored(its, it)

AddItem(it) ==
    LET stored == AddItemResult(items, it) IN
    /\ \A i \in 1..Len(stored) : stored[i].quantity.v <= MaxQty
    /\ items' = stored
    /\ UNCHANGED <<customerEmail, discountApplied, paymentStatus, orderId, procVars>>

\* the test itemIndex > -1 left out: splice(-1, 1) removes the last entry
MutRemoveItemResult(its, id) ==
    LET i == FindIndex(its, id) IN
    IF i > 0
    THEN SubSeq(its, 1, i - 1) \o SubSeq(its, i + 1, Len(its))
    ELSE SubSeq(its, 1, Len(its) - 1)

\* the item list after removeItem(id)
RemoveItemResult(its, id) ==
    LET i == FindIndex(its, id) IN
    IF i > 0
    THEN SubSeq(its, 1, i - 1) \o SubSeq(its, i + 1, Len(its))
    ELSE its

\* removeItem also sets this.paymentStatus back to 'pending'
MutRemoveItem(id) ==
    /\ items' = RemoveItemResult(items, id)
    /\ paymentStatus' = "pending"
    /\ UNCHANGED <<customerEmail, discountApplied, orderId, procVars>>

RemoveItem(id) ==
    /\ items' = RemoveItemResult(items, id)
    /\ UNCHANGED <<customerEmail, discountApplied, paymentStatus, orderId, procVars>>

\* this.items.reduce((sum, item) => sum + item.price * item.quantity, 0)
RECURSIVE SumItems(_)
SumItems(its) ==
    IF its = << >> THEN Dbl(0, 0)
    ELSE DblAdd[SumItems(SubSeq(its, 1, Len(its) - 1)),
                Product[its[Len(its)].price, its[Len(its)].quantity]]

CalculateTotal(its, discount) ==
    ToFixed2[IF discount THEN Times09[SumItems(its)] ELSE SumItems(its)]

\* the test !this.discountApplied left out
MutApplyDiscountResult(code, discount) == code = "SALE10"

\* whether applyDiscount(code) returns true
ApplyDiscountResult(code, discount) == code = "SALE10" /\ ~discount

ApplyDiscount(code) ==
    /\ discountApplied' = (IF ApplyDiscountResult(code, discountApplied)
                           THEN TRUE ELSE discountApplied)
    /\ UNCHANGED <<items, customerEmail, paymentStatus, orderId, procVars>>

-----------------------------------------------------------------------------
(* Collaborator calls, as recorded in log *)

NoCall ==
    [op |-> "", id |-> "", quantity |-> Num(0), amount |-> Num(0),
     email |-> << >>, orderId |-> "", text |-> << >>, status |-> "",
     outcome |-> "pending"]

\* this.inventoryService.checkStock(item.id, item.quantity)
CheckStockCall(it) ==
    [NoCall EXCEPT !.op = "checkStock", !.id = it.id, !.quantity = it.quantity]

\* this.paymentGateway.charge(totalAmount, this.customerEmail, this.orderId)
ChargeCall(amount, email, oid) ==
    [NoCall EXCEPT !.op = "charge", !.amount = amount, !.email = email, !.orderId = oid]

\* this.inventoryService.reduceStock(item.id, item.quantity)
ReduceStockCall(it) ==
    [NoCall EXCEPT !.op = "reduceStock", !.id = it.id, !.quantity = it.quantity]

\* this.notificationService.sendPaymentFailedNotification(this.customerEmail, text)
PaymentFailedCall(email, text) ==
    [NoCall EXCEPT !.op = "sendPaymentFailedNotification", !.email = email, !.text = text]

\* this.notificationService.sendOrderConfirmation(this.customerEmail,
\*     {orderId, items, totalAmount, status})
ConfirmationCall(email, oid, total, status) ==
    [NoCall EXCEPT !.op = "sendOrderConfirmation", !.email = email,
                   !.orderId = oid, !.amount = total, !.status = status]

\* `Tovar ${item.name} otsutstvuet`: the text of the out-of-stock notification
OutOfStockText(it) == <<"Tovar ", it.name, " otsutstvuet">>

\* the second argument of the notification after a declined charge
ChargeFailedText(email, oid) == <<oid>>

\* the awaited call at the end of lg settles with outcome o
SetOutcome(lg, o) == [lg EXCEPT ![Len(lg)].outcome = o]

-----------------------------------------------------------------------------
(* processOrder *)

\* the empty-order guard left out
MutIsEmptyOrder(its) == FALSE

\* this.items.length === 0
IsEmptyOrder(its) == Len(its) = 0

\* totalAmount < 0 in place of totalAmount <= 0
MutSkipsPayment(total, n) == NumLt0(total) /\ n > 0

\* totalAmount <= 0 && this.items.length > 0
SkipsPayment(total, n) == NumLe0(total) /\ n > 0

\* else if (totalAmount > 0)
NeedsCharge(total) == NumGt0(total)

\* the test inverted: if (isInStock)
MutIsOutOfStock(answer) == answer = "true"

\* if (!isInStock)
IsOutOfStock(answer) == answer = "false"

\* the test inverted: if (paymentSuccessful)
MutIsDeclined(answer) == answer = "true"

\* if (!paymentSuccessful)
IsDeclined(answer) == answer = "false"

\* the loop bound off by one: the last element is never visited
MutHasItem(i, its) == i < Len(its)

\* the for-of iterator has an element at position i
HasItem(i, its) == i <= Len(its)

\* lines 112-117: call sendOrderConfirmation and suspend
Confirm(lg, st, total) ==
    /\ pc' = "awaitConfirmation"
    /\ idx' = 0
    /\ item' = NoItem
    /\ log' = Append(lg, ConfirmationCall(customerEmail, orderId, total, st))

\* lines 103-105: the stock-reduction loop at position i
ReduceFrom(i, lg, st, total) ==
    IF HasItem(i, items)
    THEN /\ pc' = "awaitReduceStock"
         /\ idx' = i
         /\ item' = NoItem
         /\ log' = Append(lg, ReduceStockCall(items[i]))
    ELSE Confirm(lg, st, total)

\* lines 101-117: after the payment branch, with paymentStatus st
AfterPayment(lg, st, total) ==
    IF st = "paid" THEN ReduceFrom(1, lg, st, total) ELSE Confirm(lg, st, total)

\* lines 85-98: the payment branch up to the await of charge
Payment(lg) ==
    \E total \in {CalculateTotal(items, discountApplied)} :
    /\ totalAmount' = total
    /\ IF SkipsPayment(total, Len(items))
       THEN /\ paymentStatus' = "paid"
            /\ AfterPayment(lg, "paid", total)
       ELSE IF NeedsCharge(total)
       THEN /\ pc' = "awaitCharge"
            /\ idx' = 0
            /\ item' = NoItem
            /\ log' = Append(lg, ChargeCall(total, customerEmail, orderId))
            /\ UNCHANGED paymentStatus
       ELSE /\ UNCHANGED paymentStatus
            /\ AfterPayment(lg, paymentStatus, total)

\* the stock-check loop left after its first item
MutCheckFrom(i, lg) ==
    IF i = 1 /\ HasItem(i, items)
    THEN /\ pc' = "awaitCheckStock"
         /\ idx' = i
         /\ item' = [id |-> items[i].id, name |-> items[i].name]
         /\ log' = Append(lg, CheckStockCall(items[i]))
         /\ UNCHANGED <<paymentStatus, totalAmount>>
    ELSE Payment(lg)

\* lines 72-73: the stock-check loop at position i
CheckFrom(i, lg) ==
    IF HasItem(i, items)
    THEN /\ pc' = "awaitCheckStock"
         /\ idx' = i
         /\ item' = [id |-> items[i].id, name |-> items[i].name]
         /\ log' = Append(lg, CheckStockCall(items[i]))
         /\ UNCHANGED <<paymentStatus, totalAmount>>
    ELSE Payment(lg)

\* an awaited call rejected outside the try block: processOrder() rejects
Throw(lg) ==
    /\ pc' = "done"
    /\ result' = "threw"
    /\ idx' = 0
    /\ item' = NoItem
    /\ log' = lg

\* return b
ReturnBool(b, lg) ==
    /\ pc' = "done"
    /\ result' = (IF b THEN "true" ELSE "false")
    /\ idx' = 0
    /\ item' = NoItem
    /\ log' = lg

objVars == <<items, customerEmail, discountApplied, orderId>>

\* lines 66-73: the call of processOrder() up to its first await
ProcessOrder ==
    /\ pc = "idle"
    /\ NoQuery
    /\ statusAtCall' = paymentStatus
    /\ IF IsEmptyOrder(items)
       THEN /\ ReturnBool(FALSE, << >>)
            /\ UNCHANGED <<paymentStatus, totalAmount>>
       ELSE /\ CheckFrom(1, << >>)
            /\ result' = "none"
    /\ UNCHANGED objVars

\* lines 73-83: checkStock settles
CheckStockResolves(answer) ==
    /\ pc = "awaitCheckStock"
    /\ LET lg == SetOutcome(log, answer) IN
       CASE answer = "raise" ->
              /\ Throw(lg)
              /\ UNCHANGED <<paymentStatus, totalAmount>>
         [] answer # "raise" /\ IsOutOfStock(answer) ->
              /\ paymentStatus' = "failed"
              /\ pc' = "awaitPaymentFailed"
              /\ idx' = 0
              /\ item' = NoItem
              /\ log' = Append(lg, PaymentFailedCall(customerEmail, OutOfStockText(item)))
              /\ result' = "none"
              /\ UNCHANGED totalAmount
         [] answer # "raise" /\ ~IsOutOfStock(answer) ->
              /\ CheckFrom(idx + 1, lg)
              /\ result' = "none"
    /\ UNCHANGED <<objVars, statusAtCall>>

\* lines 90-98: charge settles
ChargeResolves(answer) ==
    /\ pc = "awaitCharge"
    /\ LET lg == SetOutcome(log, answer) IN
       CASE answer = "raise" ->
              /\ Throw(lg)
              /\ UNCHANGED paymentStatus
         [] answer # "raise" /\ IsDeclined(answer) ->
              /\ paymentStatus' = "failed"
              /\ pc' = "awaitPaymentFailed"
              /\ idx' = 0
              /\ item' = NoItem
              /\ log' = Append(lg, PaymentFailedCall(customerEmail,
                                       ChargeFailedText(customerEmail, orderId)))
              /\ result' = "none"
         [] answer # "raise" /\ ~IsDeclined(answer) ->
              /\ paymentStatus' = "paid"
              /\ AfterPayment(lg, "paid", totalAmount)
              /\ result' = "none"
    /\ UNCHANGED <<objVars, statusAtCall, totalAmount>>

\* the try/catch placed inside the loop: the next item is attempted
MutReduceStockContinues(outcome) ==
    /\ pc = "awaitReduceStock"
    /\ ReduceFrom(idx + 1, SetOutcome(log, outcome), paymentStatus, totalAmount)
    /\ result' = "none"
    /\ UNCHANGED <<objVars, statusAtCall, totalAmount, paymentStatus>>

\* the try/catch left out: a rejection of reduceStock rejects processOrder()
MutReduceStockPropagates(outcome) ==
    /\ pc = "awaitReduceStock"
    /\ LET lg == SetOutcome(log, outcome) IN
       IF outcome = "raise"
       THEN Throw(lg)
       ELSE ReduceFrom(idx + 1, lg, paymentStatus, totalAmount) /\ result' = "none"
    /\ UNCHANGED <<objVars, statusAtCall, totalAmount, paymentStatus>>

\* the catch retries the rejected item instead of leaving the loop
MutReduceStockRetries(outcome) ==
    /\ pc = "awaitReduceStock"
    /\ LET lg == SetOutcome(log, outcome) IN
       IF outcome = "raise"
       THEN ReduceFrom(idx, lg, paymentStatus, totalAmount)
       ELSE ReduceFrom(idx + 1, lg, paymentStatus, totalAmount)
    /\ result' = "none"
    /\ UNCHANGED <<objVars, statusAtCall, totalAmount, paymentStatus>>

\* lines 102-108: reduceStock settles; a rejection is caught after the loop
ReduceStockResolves(outcome) ==
    /\ pc = "awaitReduceStock"
    /\ LET lg == SetOutcome(log, outcome) IN
       IF outcome = "raise"
       THEN Confirm(lg, paymentStatus, totalAmount)
       ELSE ReduceFrom(idx + 1, lg, paymentStatus, totalAmount)
    /\ result' = "none"
    /\ UNCHANGED <<objVars, statusAtCall, totalAmount, paymentStatus>>

\* return false left out after the failure notification: line 112 follows
MutPaymentFailedFallsThrough(outcome) ==
    /\ pc = "awaitPaymentFailed"
    /\ LET lg == SetOutcome(log, outcome) IN
       IF outcome = "raise"
       THEN Throw(lg)
       ELSE Confirm(lg, paymentStatus, totalAmount) /\ result' = "none"
    /\ UNCHANGED <<objVars, statusAtCall, totalAmount, paymentStatus>>

\* lines 77-81 and 94-95: sendPaymentFailedNotification settles
PaymentFailedResolves(outcome) ==
    /\ pc = "awaitPaymentFailed"
    /\ LET lg == SetOutcome(log, outcome) IN
       IF outcome = "raise" THEN Throw(lg) ELSE ReturnBool(FALSE, lg)
    /\ UNCHANGED <<objVars, statusAtCall, totalAmount, paymentStatus>>

\* lines 112-119: sendOrderConfirmation settles
ConfirmationResolves(outcome) ==
    /\ pc = "awaitConfirmation"
    /\ LET lg == SetOutcome(log, outcome) IN
       IF outcome = "raise" THEN Throw(lg) ELSE ReturnBool(TRUE, lg)
    /\ UNCHANGED <<objVars, statusAtCall, totalAmount, paymentStatus>>

\* the caller takes the settled promise; the call's locals are gone
Return ==
    /\ pc = "done"
    /\ NoQuery
    /\ pc' = "idle"
    /\ idx' = 0
    /\ item' = NoItem
    /\ totalAmount' = Num(0)
    /\ statusAtCall' = "pending"
    /\ log' = << >>
    /\ result' = "none"
    /\ UNCHANGED <<objVars, paymentStatus>>

-----------------------------------------------------------------------------
(* The caller awaits processOrder() before it calls anything else *)

BoolAnswers == {"true", "false", "raise"}

VoidOutcomes == {"ok", "raise"}

CallAddItem == pc = "idle" /\ NoQuery /\ \E it \in ItemInputs : AddItem(it)

CallRemoveItem == pc = "idle" /\ NoQuery /\ \E id \in Ids : RemoveItem(id)

CallApplyDiscount ==
    pc = "idle" /\ NoQuery /\ \E code \in DiscountCodes : ApplyDiscount(code)

CheckStockSettles == NoQuery /\ \E answer \in BoolAnswers : CheckStockResolves(answer)

ChargeSettles == NoQuery /\ \E answer \in BoolAnswers : ChargeResolves(answer)

ReduceStockSettles ==
    NoQuery /\ \E outcome \in VoidOutcomes : ReduceStockResolves(outcome)

PaymentFailedSettles ==
    NoQuery /\ \E outcome \in VoidOutcomes : PaymentFailedResolves(outcome)

ConfirmationSettles ==
    NoQuery /\ \E outcome \in VoidOutcomes : ConfirmationResolves(outcome)

Next ==
    \/ Construct
    \/ CallAddItem
    \/ CallRemoveItem
    \/ CallApplyDiscount
    \/ ProcessOrder
    \/ CheckStockSettles
    \/ ChargeSettles
    \/ ReduceStockSettles
    \/ PaymentFailedSettles
    \/ ConfirmationSettles
    \/ Return

Spec == Init /\ [][Next]_vars

-----------------------------------------------------------------------------
(* calculateTotal() and getOrderStatus(), callable on the instance at any  *)
(* time, also while processOrder() is suspended at an await                *)

\* the variables a query leaves alone: all but returned
stateVars == <<items, customerEmail, discountApplied, paymentStatus, orderId,
               pc, idx, item, totalAmount, statusAtCall, log, result>>

\* calculateTotal() sets discountApplied back after using it
MutCallCalculateTotal ==
    /\ pc \notin {"new", "invalid"}
    /\ returned = NoReturn
    /\ returned' = [NoReturn EXCEPT !.op = "calculateTotal",
                                    !.total = CalculateTotal(items, discountApplied)]
    /\ discountApplied' = FALSE
    /\ UNCHANGED <<items, customerEmail, paymentStatus, orderId,
                   pc, idx, item, totalAmount, statusAtCall, log, result>>

\* lines 50-56: a call of calculateTotal() from outside
CallCalculateTotal ==
    /\ pc \notin {"new", "invalid"}
    /\ returned = NoReturn
    /\ returned' = [NoReturn EXCEPT !.op = "calculateTotal",
                                    !.total = CalculateTotal(items, discountApplied)]
    /\ UNCHANGED stateVars

\* lines 122-125: the parts of the string getOrderStatus() returns;
\* total.toFixed(2) formats the double that calculateTotal() parsed
GetOrderStatus ==
    [op |-> "getOrderStatus",
     total |-> ToFixed2[Literal[CalculateTotal(items, discountApplied)]],
     orderId |-> orderId, email |-> customerEmail, count |-> Len(items),
     discount |-> discountApplied, status |-> paymentStatus]

CallGetOrderStatus ==
    /\ pc \notin {"new", "invalid"}
    /\ returned = NoReturn
    /\ returned' = GetOrderStatus
    /\ UNCHANGED stateVars

\* the caller takes the returned value
QueryReturns ==
    /\ returned # NoReturn
    /\ returned' = NoReturn
    /\ UNCHANGED stateVars

NextQuery ==
    \/ Next
    \/ CallCalculateTotal
    \/ CallGetOrderStatus
    \/ QueryReturns

SpecQuery == Init /\ [][NextQuery]_vars

-----------------------------------------------------------------------------
(* The caller does not await processOrder(): while it is suspended at an   *)
(* await (or settled and not yet taken), the caller's code runs and calls  *)
(* addItem, removeItem, applyDiscount and the two queries on the instance. *)
(* The loops of processOrder() read this.items anew at every resumption.   *)

\* the item the caller adds in this specification: one unit of prod1 at 1.005,
\* so that a repeated addItem merges into the stored quantity
InterleavedItemInputs ==
    {it \in ItemInputs :
        /\ it.id = "prod1"
        /\ it.name = "Item A"
        /\ it.price = Num(10050)
        /\ it.quantity = Num(1)}

Constructed == pc \notin {"new", "invalid"}

AnytimeAddItem ==
    Constructed /\ NoQuery /\ \E it \in InterleavedItemInputs : AddItem(it)

AnytimeRemoveItem == Constructed /\ NoQuery /\ \E id \in Ids : RemoveItem(id)

AnytimeApplyDiscount ==
    Constructed /\ NoQuery /\ \E code \in DiscountCodes : ApplyDiscount(code)

NextInterleaved ==
    \/ Construct
    \/ AnytimeAddItem
    \/ AnytimeRemoveItem
    \/ AnytimeApplyDiscount
    \/ ProcessOrder
    \/ CheckStockSettles
    \/ ChargeSettles
    \/ ReduceStockSettles
    \/ PaymentFailedSettles
    \/ ConfirmationSettles
    \/ Return
    \/ CallCalculateTotal
    \/ CallGetOrderStatus
    \/ QueryReturns

SpecInterleaved == Init /\ [][NextInterleaved]_vars

\* every awaited collaborator call eventually settles
CallsSettle ==
    /\ WF_vars(CheckStockSettles)
    /\ WF_vars(ChargeSettles)
    /\ WF_vars(ReduceStockSettles)
    /\ WF_vars(PaymentFailedSettles)
    /\ WF_vars(ConfirmationSettles)

SpecSettling == Spec /\ CallsSettle

-----------------------------------------------------------------------------
(* Reading the log of a settled processOrder() *)

Count(op) == Cardinality({i \in 1..Len(log) : log[i].op = op})

NoneIs(op, outcome) ==
    \A i \in 1..Len(log) : log[i].op = op => log[i].outcome # outcome

AllAre(op, outcome) ==
    \A i \in 1..Len(log) : log[i].op = op => log[i].outcome = outcome

\* neither notification call rejected
NotificationsResolved ==
    /\ NoneIs("sendOrderConfirmation", "raise")
    /\ NoneIs("sendPaymentFailedNotification", "raise")

\* log[i] is op called with the id and quantity of the stored item at position j
IsItemCall(i, op, j) ==
    /\ i \in 1..Len(log)
    /\ j \in 1..Len(items)
    /\ log[i].op = op
    /\ log[i].id = items[j].id
    /\ log[i].quantity = items[j].quantity

\* the position of the first call of op that settled with outcome, 0 if none
FirstWith(op, outcome) ==
    IF \E i \in 1..Len(log) : log[i].op = op /\ log[i].outcome = outcome
    THEN CHOOSE i \in 1..Len(log) :
            /\ log[i].op = op /\ log[i].outcome = outcome
            /\ \A j \in 1..(i - 1) : ~(log[j].op = op /\ log[j].outcome = outcome)
    ELSE 0

-----------------------------------------------------------------------------
(* C1: for a non-empty order with a positive total, when every checkStock  *)
(* answers true, charge answers true, no reduceStock raises and the        *)
(* confirmation call resolves, processOrder() has called checkStock once   *)
(* per stored item in insertion order with its id and quantity, then charge *)
(* once with (calculateTotal(), customerEmail, orderId), then reduceStock   *)
(* once per stored item in insertion order, then sendOrderConfirmation once *)
(* with status paid and the charged total, and nothing else; paymentStatus  *)
(* is paid and it returned true.                                            *)

C1_Case ==
    /\ pc = "done"
    /\ items # << >>
    /\ NumGt0(CalculateTotal(items, discountApplied))
    /\ AllAre("checkStock", "true")
    /\ AllAre("charge", "true")
    /\ NoneIs("reduceStock", "raise")
    /\ NotificationsResolved

C1_SuccessfulCheckout ==
    C1_Case =>
        LET n == Len(items) IN
        /\ Len(log) = 2 * n + 2
        /\ \A i \in 1..n : IsItemCall(i, "checkStock", i)
        /\ log[n + 1].op = "charge"
        /\ log[n + 1].amount = CalculateTotal(items, discountApplied)
        /\ log[n + 1].email = customerEmail
        /\ log[n + 1].orderId = orderId
        /\ \A i \in 1..n : IsItemCall(n + 1 + i, "reduceStock", i)
        /\ log[2 * n + 2].op = "sendOrderConfirmation"
        /\ log[2 * n + 2].status = "paid"
        /\ log[2 * n + 2].amount = log[n + 1].amount
        /\ log[2 * n + 2].email = customerEmail
        /\ paymentStatus = "paid"
        /\ result = "true"

C1_Witness ==
    /\ C1_Case
    /\ Len(items) = 2
    /\ discountApplied
    /\ result = "true"

-----------------------------------------------------------------------------
(* C2: if the k-th stored item is the first whose checkStock answers false *)
(* (and the failure notification resolves), processOrder() returned false, *)
(* paymentStatus is failed, checkStock was called exactly k times, for the *)
(* first k items, charge, reduceStock and sendOrderConfirmation were never *)
(* called, and sendPaymentFailedNotification was called exactly once, with *)
(* a text naming the failing item.                                         *)

C2_Case ==
    /\ pc = "done"
    /\ FirstWith("checkStock", "false") > 0
    /\ NotificationsResolved

C2_OutOfStock ==
    C2_Case =>
        LET k == FirstWith("checkStock", "false") IN
        /\ result = "false"
        /\ paymentStatus = "failed"
        /\ Count("checkStock") = k
        /\ \A i \in 1..k : IsItemCall(i, "checkStock", i)
        /\ \A i \in 1..(k - 1) : log[i].outcome = "true"
        /\ Count("charge") = 0
        /\ Count("reduceStock") = 0
        /\ Count("sendOrderConfirmation") = 0
        /\ Count("sendPaymentFailedNotification") = 1
        /\ Len(log) = k + 1
        /\ log[k + 1].op = "sendPaymentFailedNotification"
        /\ log[k + 1].email = customerEmail
        /\ \E j \in 1..Len(log[k + 1].text) : log[k + 1].text[j] = items[k].name

C2_Witness ==
    /\ C2_Case
    /\ FirstWith("checkStock", "false") = 2
    /\ items[1].name # items[2].name
    /\ statusAtCall = "pending"

-----------------------------------------------------------------------------
(* C3: if all stock checks succeed and charge answers false (and the       *)
(* failure notification resolves), processOrder() returned false,          *)
(* paymentStatus is failed, reduceStock and sendOrderConfirmation were     *)
(* never called, and sendPaymentFailedNotification was called exactly once, *)
(* carrying the orderId.                                                    *)

C3_Case ==
    /\ pc = "done"
    /\ AllAre("checkStock", "true")
    /\ FirstWith("charge", "false") > 0
    /\ NotificationsResolved

C3_PaymentDeclined ==
    C3_Case =>
        /\ result = "false"
        /\ paymentStatus = "failed"
        /\ Count("charge") = 1
        /\ Count("reduceStock") = 0
        /\ Count("sendOrderConfirmation") = 0
        /\ Count("sendPaymentFailedNotification") = 1
        /\ log[Len(log)].op = "sendPaymentFailedNotification"
        /\ log[Len(log)].email = customerEmail
        /\ log[Len(log)].text = <<orderId>>

C3_Witness ==
    /\ C3_Case
    /\ Len(items) = 2
    /\ result = "false"

-----------------------------------------------------------------------------
(* C4: if payment has succeeded and the reduceStock call for the j-th      *)
(* stored item is the first to raise (and the confirmation call resolves), *)
(* reduceStock was invoked exactly j times, for the first j items,         *)
(* paymentStatus is still paid, the error did not propagate,               *)
(* sendOrderConfirmation was sent exactly once, after the failed           *)
(* reduction, and processOrder() returned true.                            *)

C4_Case ==
    /\ pc = "done"
    /\ FirstWith("reduceStock", "raise") > 0
    /\ NotificationsResolved

C4_ReduceStockRaises ==
    C4_Case =>
        LET f == FirstWith("reduceStock", "raise")
            j == Count("reduceStock")
        IN
        /\ \A i \in 1..j : IsItemCall(f - j + i, "reduceStock", i)
        /\ \A i \in 1..(j - 1) : log[f - j + i].outcome = "ok"
        /\ paymentStatus = "paid"
        /\ result = "true"
        /\ Count("sendOrderConfirmation") = 1
        /\ Len(log) = f + 1
        /\ log[f + 1].op = "sendOrderConfirmation"
        /\ log[f + 1].status = "paid"

C4_Witness ==
    /\ C4_Case
    /\ Len(items) = 2
    /\ Count("reduceStock") = 1
    /\ Count("charge") = 1

C4_WitnessSecond ==
    /\ C4_Case
    /\ Len(items) = 2
    /\ Count("reduceStock") = 2

-----------------------------------------------------------------------------
(* C5: paymentStatus is pending -> {paid, failed} with both targets        *)
(* terminal: no step of any public operation, repeated processOrder()      *)
(* calls included, takes paymentStatus from paid or failed to another      *)
(* value.                                                                  *)

C5_StatusTerminal ==
    [][/\ (paymentStatus = "paid" => paymentStatus' = "paid")
       /\ (paymentStatus = "failed" => paymentStatus' = "failed")]_vars

-----------------------------------------------------------------------------
(* C6: processOrder() called on an empty item list returns false at once,  *)
(* with no collaborator call, and leaves paymentStatus, items and          *)
(* discountApplied unchanged.                                              *)

C6_EmptyOrder ==
    [][(ProcessOrder /\ items = << >>) =>
          /\ pc' = "done"
          /\ result' = "false"
          /\ log' = << >>
          /\ UNCHANGED <<paymentStatus, items, discountApplied>>]_vars

C6_Witness ==
    /\ pc = "done"
    /\ items = << >>
    /\ result = "false"
    /\ log = << >>
    /\ paymentStatus = "paid"
    /\ discountApplied

-----------------------------------------------------------------------------
(* C7: for a non-empty order whose stock checks all succeed, charge is     *)
(* invoked (once) if and only if the computed total is greater than 0;     *)
(* when the total is exactly 0, charge is never invoked, paymentStatus     *)
(* becomes paid, reduceStock is invoked for the stored items in order (for *)
(* every item, or up to the first call that raises), a confirmation with   *)
(* totalAmount 0 and status paid is sent, and processOrder() returns true  *)
(* once the confirmation call resolves.                                    *)

C7_Case ==
    /\ pc = "done"
    /\ items # << >>
    /\ Count("checkStock") = Len(items)
    /\ AllAre("checkStock", "true")

C7_ZeroTotalCase ==
    /\ C7_Case
    /\ CalculateTotal(items, discountApplied) = Num(0)
    /\ NotificationsResolved

-----------------------------------------------------------------------------
(* C8, as stated: whichever way each collaborator call ends, processOrder() *)
(* completes by returning a boolean and never propagates an error.          *)

C8_NeverThrows == pc = "done" => result \in {"true", "false"}

(* C8, amended: processOrder() never propagates an error raised by         *)
(* reduceStock, and it completes by returning a boolean exactly when       *)
(* checkStock, charge, sendPaymentFailedNotification and                   *)
(* sendOrderConfirmation all settle without raising; an error raised by    *)
(* one of those four is propagated to the caller, and it is the last call  *)
(* processOrder() makes.                                                   *)

RaisedOutsideTry(i) == log[i].op # "reduceStock" /\ log[i].outcome = "raise"

C8_ThrowsOnlyOutsideTry ==
    pc = "done" =>
        /\ result \in {"true", "false", "threw"}
        /\ result = "threw" <=> (\E i \in 1..Len(log) : RaisedOutsideTry(i))
        /\ \A i \in 1..Len(log) : RaisedOutsideTry(i) => i = Len(log)

C8_Witness ==
    /\ pc = "done"
    /\ result = "true"
    /\ FirstWith("reduceStock", "raise") > 0

C8_WitnessThrew ==
    /\ pc = "done"
    /\ result = "threw"
    /\ log[Len(log)].op = "charge"

-----------------------------------------------------------------------------
(* C9: addItem with a valid item whose id is already stored adds the new   *)
(* quantity to the existing entry's quantity and changes nothing else      *)
(* (entry count, the entry's price, name and position, all other entries); *)
(* otherwise a valid item is appended at the end.  No two stored items     *)
(* share an id.                                                            *)

IsValidItem(it) ==
    /\ NumGt0(it.quantity)
    /\ ~it.price.nan
    /\ it.price.v >= 0

UniqueIds(its) ==
    \A i, j \in 1..Len(its) : its[i].id = its[j].id => i = j

C9_AddItemPost(old, it, new) ==
    IF \E i \in 1..Len(old) : old[i].id = it.id
    THEN /\ Len(new) = Len(old)
         /\ \A i \in 1..Len(old) :
               /\ new[i].id = old[i].id
               /\ new[i].name = old[i].name
               /\ new[i].price = old[i].price
               /\ new[i].quantity = (IF old[i].id = it.id
                                     THEN NumAdd(old[i].quantity, it.quantity)
                                     ELSE old[i].quantity)
    ELSE new = old \o <<it>>

ValidItemInputs == {it \in ItemInputs : IsValidItem(it)}

C9_AddItemMerges ==
    [][/\ (items' # items /\ Len(items') >= Len(items)) =>
             \A it \in ValidItemInputs :
                AddItem(it) => C9_AddItemPost(items, it, items')
       /\ UniqueIds(items')]_vars

C9_Witness ==
    /\ Len(items) = 2
    /\ items[1].quantity = Num(2)
    /\ items[2].quantity = Num(1)
    /\ items[1].price # items[2].price

-----------------------------------------------------------------------------
(* C10: every stored item has quantity > 0 and price >= 0.                 *)

C10_StoredItemsValid ==
    \A i \in 1..Len(items) :
        /\ NumGt0(items[i].quantity)
        /\ ~items[i].price.nan
        /\ items[i].price.v >= 0

-----------------------------------------------------------------------------
(* C11: removeItem(id) with an id that matches no stored item leaves the   *)
(* item collection, discountApplied and paymentStatus unchanged (there is  *)
(* no error path); with a matching id it removes exactly the first         *)
(* matching entry and keeps all other entries in their relative order.     *)

C11_AbsentIsNoOp(its) ==
    \A id \in Ids :
        (\A j \in 1..Len(its) : its[j].id # id) => RemoveItemResult(its, id) = its

C11_RemovedFirstMatch(old, id, new) ==
    \E i \in 1..Len(old) :
        /\ old[i].id = id
        /\ \A j \in 1..(i - 1) : old[j].id # id
        /\ Len(new) = Len(old) - 1
        /\ \A j \in 1..(i - 1) : new[j] = old[j]
        /\ \A j \in i..Len(new) : new[j] = old[j + 1]

C11_RemoveItem ==
    [][/\ C11_AbsentIsNoOp(items)
       /\ C11_AbsentIsNoOp(items')
       /\ \A id \in Ids :
            RemoveItem(id) =>
                /\ UNCHANGED <<discountApplied, paymentStatus>>
                /\ IF \E j \in 1..Len(items) : items[j].id = id
                   THEN C11_RemovedFirstMatch(items, id, items')
                   ELSE items' = items]_vars

C11_Witness ==
    /\ pc = "idle"
    /\ items = << >>
    /\ paymentStatus = "paid"

-----------------------------------------------------------------------------
(* C12: applyDiscount(code) returns true and sets discountApplied exactly  *)
(* when code is "SALE10" and no discount is applied; in every other case   *)
(* it returns false and changes no state.  Hence a call that returns true  *)
(* is never followed by another one, and discountApplied never reverts     *)
(* from true to false.                                                     *)

C12_ReturnsTrueExactlyWhen(discount) ==
    \A code \in DiscountCodes :
        ApplyDiscountResult(code, discount) <=> (code = "SALE10" /\ discount = FALSE)

C12_ApplyDiscount ==
    [][/\ C12_ReturnsTrueExactlyWhen(discountApplied)
       /\ C12_ReturnsTrueExactlyWhen(discountApplied')
       /\ (discountApplied => discountApplied')
       /\ \A code \in DiscountCodes :
            ApplyDiscount(code) =>
                IF code = "SALE10" /\ ~discountApplied
                THEN /\ discountApplied'
                     /\ ~ApplyDiscountResult(code, discountApplied')
                     /\ CalculateTotal(items', discountApplied')
                          = ToFixed2[Times09[SumItems(items)]]
                ELSE UNCHANGED vars
       /\ (discountApplied' # discountApplied => ApplyDiscount("SALE10"))]_vars

C12_Witness ==
    /\ discountApplied
    /\ items # << >>
    /\ NumGt0(CalculateTotal(items, FALSE))
    /\ CalculateTotal(items, TRUE) # CalculateTotal(items, FALSE)

-----------------------------------------------------------------------------
(* C13: for valid stored items calculateTotal() is the decimal sum of      *)
(* price x quantity, times 0.9 when discountApplied, rounded to 2 decimal  *)
(* places with a half rounded away from zero; it is the same for the       *)
(* items taken in the opposite order.                                      *)

\* the sum of price x quantity as a decimal, in units of 1/10000
RECURSIVE C13_DecimalSum(_)
C13_DecimalSum(its) ==
    IF its = << >> THEN 0
    ELSE C13_DecimalSum(Tail(its)) + Head(its).price.v * Head(its).quantity.v

\* a non-negative decimal in units of 1/100000 rounded to a multiple of 0.01,
\* a half going up; the result in units of 1/10000
C13_HalfAwayFromZero(n) == ((n + 500) \div 1000) * 100

C13_Expected(its, discount) ==
    C13_HalfAwayFromZero(IF discount THEN 9 * C13_DecimalSum(its)
                                     ELSE 10 * C13_DecimalSum(its))

C13_Reverse(its) == [i \in 1..Len(its) |-> its[Len(its) + 1 - i]]

C13_RoundedDecimalTotal ==
    (\A i \in 1..Len(items) : IsValidItem(items[i])) =>
        /\ CalculateTotal(items, discountApplied)
             = Num(C13_Expected(items, discountApplied))
        /\ CalculateTotal(C13_Reverse(items), discountApplied)
             = CalculateTotal(items, discountApplied)

-----------------------------------------------------------------------------
(* C17: within one processOrder() the collaborator calls are sequenced     *)
(* with at most one call outstanding: only the latest call can be          *)
(* unsettled; charge is invoked only after checkStock answered true for    *)
(* every stored item, in order; reduceStock is invoked only with           *)
(* paymentStatus paid; sendOrderConfirmation is invoked only after the     *)
(* stock reduction has run over every item or stopped at a rejection.      *)

Suspended ==
    pc \in {"awaitCheckStock", "awaitCharge", "awaitReduceStock",
            "awaitPaymentFailed", "awaitConfirmation"}

C17_OneOutstanding ==
    /\ \A i \in 1..Len(log) : log[i].outcome = "pending" => i = Len(log)
    /\ Suspended <=> (log # << >> /\ log[Len(log)].outcome = "pending")

C17_ChargeAfterChecks ==
    \A k \in 1..Len(log) :
        log[k].op = "charge" =>
            /\ k = Len(items) + 1
            /\ \A j \in 1..Len(items) :
                 IsItemCall(j, "checkStock", j) /\ log[j].outcome = "true"

C17_ReduceAfterPaid ==
    \A k \in 1..Len(log) :
        log[k].op = "reduceStock" =>
            /\ paymentStatus = "paid"
            /\ \A j \in k..Len(log) : log[j].op # "charge"
            /\ \A j \in 1..Len(log) : log[j].op = "charge" => log[j].outcome = "true"

C17_ReductionOver(k) ==
    LET reds == {j \in 1..Len(log) : log[j].op = "reduceStock"} IN
    /\ \A j \in reds : j < k /\ log[j].outcome \in {"ok", "raise"}
    /\ \/ reds = {} /\ paymentStatus # "paid"
       \/ Cardinality(reds) = Len(items) /\ \A j \in reds : log[j].outcome = "ok"
       \/ \E j \in reds : /\ log[j].outcome = "raise"
                          /\ \A i \in reds : i <= j

C17_ConfirmAfterReduction ==
    \A k \in 1..Len(log) :
        log[k].op = "sendOrderConfirmation" => k = Len(log) /\ C17_ReductionOver(k)

C17_StrictSequence ==
    /\ C17_OneOutstanding
    /\ C17_ChargeAfterChecks
    /\ C17_ReduceAfterPaid
    /\ C17_ConfirmAfterReduction

C17_Witness ==
    /\ pc = "awaitConfirmation"
    /\ Len(items) = 2
    /\ Count("checkStock") = 2
    /\ Count("charge") = 1
    /\ Count("reduceStock") = 2
    /\ AllAre("reduceStock", "ok")

-----------------------------------------------------------------------------
(* C18: once paymentStatus is paid, no later processOrder() on the same    *)
(* instance invokes charge or reduceStock: a call that started with        *)
(* paymentStatus paid has neither in its log.                              *)

C18_NoSecondCheckout ==
    statusAtCall = "paid" => Count("charge") = 0 /\ Count("reduceStock") = 0

-----------------------------------------------------------------------------
(* C19: a processOrder() on a non-empty order that returns true has sent   *)
(* sendOrderConfirmation exactly once and no                               *)
(* sendPaymentFailedNotification; one that returns false has sent          *)
(* sendPaymentFailedNotification exactly once and no                       *)
(* sendOrderConfirmation; the notification has settled before the return,  *)
(* and no call sends both.                                                 *)

C19_Sent(op) ==
    /\ Count(op) = 1
    /\ \A i \in 1..Len(log) : log[i].op = op => i = Len(log) /\ log[i].outcome = "ok"

C19_OneNotification ==
    /\ Count("sendOrderConfirmation") + Count("sendPaymentFailedNotification") <= 1
    /\ (pc = "done" /\ items # << >> /\ result = "true") =>
           C19_Sent("sendOrderConfirmation") /\ Count("sendPaymentFailedNotification") = 0
    /\ (pc = "done" /\ items # << >> /\ result = "false") =>
           C19_Sent("sendPaymentFailedNotification") /\ Count("sendOrderConfirmation") = 0

C19_Witness ==
    /\ pc = "done"
    /\ result = "false"
    /\ Count("charge") = 1
    /\ C19_Sent("sendPaymentFailedNotification")

C19_WitnessTrue ==
    /\ pc = "done"
    /\ result = "true"
    /\ Len(items) = 2
    /\ C19_Sent("sendOrderConfirmation")

-----------------------------------------------------------------------------
(* C20: whenever sendOrderConfirmation is invoked, paymentStatus is paid,  *)
(* the payload's status is paid and its totalAmount is the amount passed   *)
(* to charge in the same call (0 when charge was skipped); processOrder()  *)
(* returns true only with paymentStatus paid.                              *)

C20_ChargedAmount ==
    IF \E j \in 1..Len(log) : log[j].op = "charge"
    THEN log[CHOOSE j \in 1..Len(log) : log[j].op = "charge"].amount
    ELSE Num(0)

C20_ConfirmationImpliesPaid ==
    /\ \A k \in 1..Len(log) :
         log[k].op = "sendOrderConfirmation" =>
             /\ paymentStatus = "paid"
             /\ log[k].status = "paid"
             /\ log[k].amount = C20_ChargedAmount
    /\ (pc = "done" /\ result = "true") => paymentStatus = "paid"

-----------------------------------------------------------------------------
(* C14: when every awaited collaborator call eventually settles, a         *)
(* processOrder() that is suspended eventually finishes; it returns true   *)
(* or false unless a call outside the try block rejected; it makes at most *)
(* 2 * (number of stored items) + 2 collaborator calls: a checkStock and a *)
(* reduceStock per item, one charge and one notification.                  *)

C14_CallsBounded ==
    /\ Len(log) <= 2 * Len(items) + 2
    /\ Count("checkStock") <= Len(items)
    /\ Count("reduceStock") <= Len(items)
    /\ Count("charge") <= 1

C14_ExitPoint ==
    pc = "done" =>
        \/ result \in {"true", "false"}
        \/ result = "threw" /\ \E i \in 1..Len(log) : RaisedOutsideTry(i)

C14_Terminates ==
    /\ [](C14_CallsBounded /\ C14_ExitPoint)
    /\ (Suspended ~> pc = "done")

C14_Witness ==
    /\ pc = "done"
    /\ result = "true"
    /\ Len(items) = 2
    /\ Len(log) = 2 * Len(items) + 2

-----------------------------------------------------------------------------
(* C15: the constructor throws exactly when customerEmail is empty or has  *)
(* no "@"; otherwise the instance starts with no items, discountApplied    *)
(* false, paymentStatus pending, the given customerEmail and a defined     *)
(* orderId; no operation after the constructor changes orderId, and a      *)
(* failed construction leaves nothing to operate on.                       *)

C15_HasAt(email) == \E i \in 1..Len(email) : email[i] = "@"

C15_Constructor ==
    [][/\ pc = "new" =>
            /\ pc' \in {"invalid", "idle"}
            /\ pc' = "invalid" <=> (customerEmail = << >> \/ ~C15_HasAt(customerEmail))
            /\ pc' = "idle" =>
                 /\ items' = << >>
                 /\ discountApplied' = FALSE
                 /\ paymentStatus' = "pending"
                 /\ customerEmail' = customerEmail
                 /\ orderId' \in OrderIds
                 /\ orderId' # NoOrderId
       /\ pc # "new" => orderId' = orderId /\ pc' # "new"
       /\ pc # "invalid"]_vars

C15_Witness ==
    /\ pc = "invalid"
    /\ customerEmail = <<"a">>

C15_WitnessCreated ==
    /\ pc = "idle"
    /\ items = << >>
    /\ paymentStatus = "pending"
    /\ discountApplied = FALSE
    /\ orderId \in OrderIds
    /\ C15_HasAt(customerEmail)

-----------------------------------------------------------------------------
(* C16: whenever calculateTotal() or getOrderStatus() is called, before,    *)
(* during or after processOrder(),                                         *)
(* the step in which it returns leaves items, discountApplied,             *)
(* paymentStatus, customerEmail and orderId unchanged, adds no collaborator *)
(* call and does not move processOrder(); what it returns is the total of  *)
(* the stored items.                                                       *)

C16_Fields == <<items, discountApplied, paymentStatus, customerEmail, orderId>>

C16_QueriesSideEffectFree ==
    [][(returned' # returned /\ returned' # NoReturn) =>
            /\ UNCHANGED C16_Fields
            /\ UNCHANGED <<log, pc, result>>
            /\ returned'.op \in {"calculateTotal", "getOrderStatus"}
            /\ returned'.op = "calculateTotal" =>
                   returned'.total = CalculateTotal(items', discountApplied')
            /\ returned'.op = "getOrderStatus" =>
                   /\ returned'.total = CalculateTotal(items', discountApplied')
                   /\ returned'.count = Len(items')
                   /\ returned'.status = paymentStatus']_vars

C16_Witness ==
    /\ pc = "awaitCharge"
    /\ returned.op = "getOrderStatus"
    /\ returned.count = 2
    /\ returned.status = "pending"

C16_WitnessAfter ==
    /\ pc = "idle"
    /\ paymentStatus = "paid"
    /\ returned.op = "calculateTotal"
    /\ NumGt0(returned.total)

-----------------------------------------------------------------------------
(* C22: also when the caller calls addItem, removeItem or applyDiscount     *)
(* while processOrder() is suspended at an await, every (id, quantity)     *)
(* passed to reduceStock was passed before, in the same checkout, to       *)
(* checkStock with the same quantity, and that check answered true.        *)

C22_ReducedWasChecked ==
    \A k \in 1..Len(log) :
        log[k].op = "reduceStock" =>
            \E j \in 1..(k - 1) :
                /\ log[j].op = "checkStock"
                /\ log[j].id = log[k].id
                /\ log[j].quantity = log[k].quantity
                /\ log[j].outcome = "true"

-----------------------------------------------------------------------------
(* C21: paymentStatus is changed only by processOrder(): a step of addItem, *)
(* removeItem, applyDiscount, calculateTotal or getOrderStatus, whether    *)
(* processOrder() is suspended or not, leaves it unchanged; and every step *)
(* of processOrder(), from its call to the caller taking its result,       *)
(* leaves the item list and discountApplied unchanged.                     *)

C21_CallerStep ==
    \/ AnytimeAddItem
    \/ AnytimeRemoveItem
    \/ AnytimeApplyDiscount
    \/ CallCalculateTotal
    \/ CallGetOrderStatus

C21_ProcessOrderStep ==
    \/ ProcessOrder
    \/ CheckStockSettles
    \/ ChargeSettles
    \/ ReduceStockSettles
    \/ PaymentFailedSettles
    \/ ConfirmationSettles
    \/ Return

C21_FrameEffects ==
    [][/\ C21_CallerStep => paymentStatus' = paymentStatus
       /\ paymentStatus' # paymentStatus =>
            /\ pc \in {"awaitCheckStock", "awaitCharge"}
            /\ pc' # pc
            /\ log' # log
       /\ C21_ProcessOrderStep => items' = items /\ discountApplied' = discountApplied
       /\ (pc' # pc \/ log' # log) /\ pc # "new" =>
            items' = items /\ discountApplied' = discountApplied]_vars

\* the caller removed the item and applied the discount while processOrder()
\* was suspended, and processOrder() went on to set paymentStatus
C21_Witness ==
    /\ pc = "awaitConfirmation"
    /\ paymentStatus = "paid"
    /\ items = << >>
    /\ discountApplied
    /\ Count("checkStock") = 1

====
